---- MODULE Spec2Model ----
(***************************************************************************)
(* A model of reddit_scraper.py: main, search_reddit and save_to_csv.      *)
(* A Python str is a sequence of one-character strings; a dict is a        *)
(* function from its keys (TLA+ strings) to its values.  The PRAW client   *)
(* is the environment: a search yields submissions from the newest to the *)
(* oldest, no more than limit of them, and any call to it may raise.       *)
(***************************************************************************)
EXTENDS Integers, Sequences, FiniteSets, TLC

(* Bounds of the model. *)
MaxArgLen == 2
MaxKeywords == 2
MaxLimit == 2
MaxRows == 2

(* ---------------------------------------------------------------------- *)
(* Python strings                                                          *)
(* ---------------------------------------------------------------------- *)

None == <<"<None>">>

\* str(None)
NoneStr == <<"N", "o", "n", "e">>

\* the '[deleted]' literal of comment_data
DeletedStr == <<"[", "d", "e", "l", "e", "t", "e", "d", "]">>

\* the '[External link]' literal of post_data
ExternalLinkStr == <<"[", "E", "x", "t", "e", "r", "n", "a", "l", " ", "l", "i", "n", "k", "]">>

\* the 'https://www.reddit.com' prefix of the url field
RedditUrl == <<"h", "t", "t", "p", "s", ":", "/", "/", "w", "w", "w", ".", "r", "e", "d", "d", "i", "t", ".", "c", "o", "m">>

\* str.lower() on one character of the model's alphabet
LowerChar(c) == IF c = "A" THEN "a" ELSE IF c = "B" THEN "b" ELSE c

\* str.lower()
RECURSIVE Lower(_)
Lower(s) == IF s = <<>> THEN <<>> ELSE <<LowerChar(Head(s))>> \o Lower(Tail(s))

\* the Python operator  needle in hay  on strings
Contains(needle, hay) ==
    \E i \in 0..(Len(hay) - Len(needle)) : SubSeq(hay, i + 1, i + Len(needle)) = needle

\* str(x) for x a Redditor (whose str is its name) or None
Str(x) == IF x = None THEN NoneStr ELSE x

\* str.split(',')
RECURSIVE Split(_)
Split(s) ==
    IF \A i \in 1..Len(s) : s[i] # ","
    THEN <<s>>
    ELSE LET i == CHOOSE j \in 1..Len(s) : s[j] = "," /\ \A k \in 1..(j - 1) : s[k] # ","
         IN  <<SubSeq(s, 1, i - 1)>> \o Split(SubSeq(s, i + 1, Len(s)))

\* str.strip()
RECURSIVE Strip(_)
Strip(s) ==
    IF s = <<>> THEN <<>>
    ELSE IF Head(s) = " " THEN Strip(Tail(s))
    ELSE IF s[Len(s)] = " " THEN Strip(SubSeq(s, 1, Len(s) - 1))
    ELSE s

\* keywords = [k.strip() for k in args.keywords.split(',')]
ParseKeywords(arg) == LET parts == Split(arg) IN [i \in 1..Len(parts) |-> Strip(parts[i])]

(* ---------------------------------------------------------------------- *)
(* The site as the PRAW client shows it                                    *)
(* ---------------------------------------------------------------------- *)

\* a "load more comments" placeholder of a comment forest
MoreComments == [kind |-> "more"]

Comment(id, author, body) ==
    [kind |-> "comment", id |-> id, author |-> author, score |-> 1, created_utc |-> 2, body |-> body]

SubmissionIds == {1, 2, 3}

\* The submissions a search can yield: a text post by a deleted author, a
\* text post with an empty body, and a link post.  comments is the forest
\* before replace_more.
Submission(id) ==
    CASE id = 1 ->
           [id |-> <<"p", "1">>, title |-> <<"t", "1">>, author |-> None,
            subreddit |-> <<"r">>, score |-> 1, permalink |-> <<"/", "1", "/">>,
            created_utc |-> 3, is_self |-> TRUE, selftext |-> <<"a">>,
            comments |-> <<Comment(<<"c", "1">>, None, <<"A", "b">>),
                           MoreComments,
                           Comment(<<"c", "2">>, <<"u">>, <<"b">>)>>]
      [] id = 2 ->
           [id |-> <<"p", "2">>, title |-> <<"t", "2">>, author |-> <<"u">>,
            subreddit |-> <<"r">>, score |-> 2, permalink |-> <<"/", "2", "/">>,
            created_utc |-> 2, is_self |-> TRUE, selftext |-> <<>>,
            comments |-> <<Comment(<<"c", "3">>, <<"v">>, <<"a">>)>>]
      [] id = 3 ->
           [id |-> <<"p", "3">>, title |-> <<"t", "3">>, author |-> <<"v">>,
            subreddit |-> <<"q">>, score |-> 3, permalink |-> <<"/", "3", "/">>,
            created_utc |-> 1, is_self |-> FALSE, selftext |-> <<>>,
            comments |-> <<>>]

\* what subreddit.search(query, sort='new', ..., limit=limit) can yield:
\* submissions from the newest to the oldest, at most limit of them
SearchResults(lim) ==
    {q \in UNION {[1..n -> SubmissionIds] : n \in 0..lim} :
        \A i, j \in 1..Len(q) :
            i < j => Submission(q[i]).created_utc > Submission(q[j]).created_utc}

\* submission.comments.replace_more(limit=0) followed by .list(): the
\* placeholders are dropped, the loaded comments stay in order
ReplaceMore(forest) == SelectSeq(forest, LAMBDA c : c.kind = "comment")

\* datetime.fromtimestamp(t).strftime('%Y-%m-%d %H:%M:%S')
Strftime(t) == <<"%Y-%m-%d %H:%M:%S", t>>

(* ---------------------------------------------------------------------- *)
(* search_reddit                                                           *)
(* ---------------------------------------------------------------------- *)

\* the content of post_data
PostContent(submission) ==
    IF submission.is_self /\ submission.selftext # <<>>
    THEN submission.selftext
    ELSE ExternalLinkStr

\* the author of post_data
PostAuthor(submission) == Str(submission.author)

\* post_data
PostData(keyword, submission) ==
    [keyword |-> keyword,
     title |-> submission.title,
     author |-> PostAuthor(submission),
     subreddit |-> submission.subreddit,
     score |-> submission.score,
     url |-> RedditUrl \o submission.permalink,
     created_utc |-> Strftime(submission.created_utc),
     post_id |-> submission.id,
     is_self_post |-> submission.is_self,
     content_type |-> "submission",
     content |-> PostContent(submission)]

\* variant: the operands of  in  exchanged
MatchesReversed(keyword, comment) == Contains(Lower(comment.body), Lower(keyword))

\* variant: an empty keyword matches nothing
MatchesNonEmpty(keyword, comment) ==
    keyword # <<>> /\ Contains(Lower(keyword), Lower(comment.body))

\* if keyword.lower() in comment.body.lower()
Matches(keyword, comment) == Contains(Lower(keyword), Lower(comment.body))

\* comment_data
CommentData(keyword, submission, comment) ==
    [keyword |-> keyword,
     title |-> submission.title,
     author |-> IF comment.author # None THEN Str(comment.author) ELSE DeletedStr,
     subreddit |-> submission.subreddit,
     score |-> comment.score,
     url |-> RedditUrl \o submission.permalink \o comment.id \o <<"/">>,
     created_utc |-> Strftime(comment.created_utc),
     post_id |-> comment.id,
     is_self_post |-> TRUE,
     content |-> comment.body,
     content_type |-> "comment"]

(* ---------------------------------------------------------------------- *)
(* save_to_csv                                                             *)
(* ---------------------------------------------------------------------- *)

\* the keys of the records, spelled out for comparison
FieldChars(name) ==
    CASE name = "author" -> <<"a", "u", "t", "h", "o", "r">>
      [] name = "content" -> <<"c", "o", "n", "t", "e", "n", "t">>
      [] name = "content_type" -> <<"c", "o", "n", "t", "e", "n", "t", "_", "t", "y", "p", "e">>
      [] name = "created_utc" -> <<"c", "r", "e", "a", "t", "e", "d", "_", "u", "t", "c">>
      [] name = "is_self_post" -> <<"i", "s", "_", "s", "e", "l", "f", "_", "p", "o", "s", "t">>
      [] name = "keyword" -> <<"k", "e", "y", "w", "o", "r", "d">>
      [] name = "post_id" -> <<"p", "o", "s", "t", "_", "i", "d">>
      [] name = "score" -> <<"s", "c", "o", "r", "e">>
      [] name = "subreddit" -> <<"s", "u", "b", "r", "e", "d", "d", "i", "t">>
      [] name = "title" -> <<"t", "i", "t", "l", "e">>
      [] name = "url" -> <<"u", "r", "l">>

\* the characters of the keys in code point order ('_' is 95, 'a' is 97)
CodePointOrder ==
    <<"_", "a", "b", "c", "d", "e", "f", "g", "h", "i", "j", "k", "l", "m",
      "n", "o", "p", "q", "r", "s", "t", "u", "v", "w", "x", "y", "z">>

Ord(c) == CHOOSE i \in 1..Len(CodePointOrder) : CodePointOrder[i] = c

\* s < t on Python strings
RECURSIVE StrLess(_, _)
StrLess(s, t) ==
    IF t = <<>> THEN FALSE
    ELSE IF s = <<>> THEN TRUE
    ELSE IF Head(s) # Head(t) THEN Ord(Head(s)) < Ord(Head(t))
    ELSE StrLess(Tail(s), Tail(t))

\* sorted(list(names)) for a set of keys
RECURSIVE Sorted(_)
Sorted(names) ==
    IF names = {} THEN <<>>
    ELSE LET m == CHOOSE x \in names :
                     \A y \in names \ {x} : StrLess(FieldChars(x), FieldChars(y))
         IN  <<m>> \o Sorted(names \ {m})

\* variant: the keys of the first dictionary only
FieldnamesOfFirst(rs) == Sorted(DOMAIN rs[1])

\* fieldnames: the keys of all the dictionaries, sorted
Fieldnames(rs) == Sorted(UNION {DOMAIN rs[i] : i \in 1..Len(rs)})

\* one row as csv.DictWriter writes it: a missing key gives an empty cell
WriteRow(header, r) ==
    [i \in 1..Len(header) |-> IF header[i] \in DOMAIN r THEN r[header[i]] ELSE <<>>]

\* what open(filename, 'w'), writeheader and writerows leave in the file
WriteCsv(rs) ==
    LET header == Fieldnames(rs)
    IN  [exists |-> TRUE, header |-> header,
         rows |-> [i \in 1..Len(rs) |-> WriteRow(header, rs[i])]]

\* the destination before the run: missing, or left by an earlier run
NoFile == [exists |-> FALSE, header |-> <<>>, rows |-> <<>>]
OldFile == [exists |-> TRUE, header |-> <<"keyword">>, rows |-> << <<<<"o", "l", "d">>>> >>]

(* ---------------------------------------------------------------------- *)
(* State                                                                   *)
(* ---------------------------------------------------------------------- *)

VARIABLES
    pc,          \* where the run is
    keywords,    \* main: the parsed keyword list
    subreddit,   \* args.subreddit, None when not given
    limit,       \* args.limit
    ki,          \* search_reddit: entries of keywords taken by the outer loop
    submissions, \* the submissions the current search yields
    si,          \* submissions taken by the loop over submissions
    comments,    \* submission.comments.list() of the current submission
    ci,          \* comments taken by the loop over the comments
    results,     \* search_reddit: results
    file,        \* the destination file
    stdout,      \* what has been printed
    failure,     \* the exception in flight, "none" when there is none
    writes,      \* history: how many times the file has been opened for writing
    returned,    \* history: what the search of each keyword entry yielded
    origin       \* history: for each record, <<keyword entry, submission>> it came from

vars == <<pc, keywords, subreddit, limit, ki, submissions, si, comments, ci,
          results, file, stdout, failure, writes, returned, origin>>

loopvars == <<ki, submissions, si, comments, ci>>

\* the values --keywords can take
ArgChars == {"A", ",", " "}
Args == UNION {[1..n -> ArgChars] : n \in 0..MaxArgLen}

Init ==
    /\ pc = "main"
    /\ keywords = <<>>
    /\ subreddit = None
    /\ limit = 0
    /\ ki = 0
    /\ submissions = <<>>
    /\ si = 0
    /\ comments = <<>>
    /\ ci = 0
    /\ results = <<>>
    /\ file \in {NoFile, OldFile}
    /\ stdout = <<>>
    /\ failure = "none"
    /\ writes = 0
    /\ returned = <<>>
    /\ origin = <<>>

(* ---------------------------------------------------------------------- *)
(* main                                                                    *)
(* ---------------------------------------------------------------------- *)

\* parse_args, the keyword parsing and the two announcements
Main ==
    /\ pc = "main"
    /\ \E arg \in Args, lim \in 0..MaxLimit, sub \in {None, <<"r">>} :
          /\ Len(ParseKeywords(arg)) <= MaxKeywords
          /\ keywords' = ParseKeywords(arg)
          /\ limit' = lim
          /\ subreddit' = sub
          /\ stdout' = <<"Searching Reddit for",
                         IF sub # None THEN "In subreddit" ELSE "Across all of Reddit">>
    /\ pc' = "for_keyword"
    /\ UNCHANGED <<loopvars, results, file, failure, writes, returned, origin>>

\* variant: the search is issued without its limit
ForKeywordNoLimit ==
    /\ pc = "for_keyword"
    /\ ki < Len(keywords)
    /\ ki' = ki + 1
    /\ \E q \in SearchResults(Cardinality(SubmissionIds)) :
          /\ submissions' = q
          /\ returned' = Append(returned, q)
    /\ si' = 0
    /\ pc' = "for_submission"
    /\ UNCHANGED <<keywords, subreddit, limit, comments, ci, results, file, stdout,
                   failure, writes, origin>>

\* for keyword in keywords: the search is issued
ForKeyword ==
    /\ pc = "for_keyword"
    /\ ki < Len(keywords)
    /\ ki' = ki + 1
    /\ \E q \in SearchResults(limit) :
          /\ submissions' = q
          /\ returned' = Append(returned, q)
    /\ si' = 0
    /\ pc' = "for_submission"
    /\ UNCHANGED <<keywords, subreddit, limit, comments, ci, results, file, stdout,
                   failure, writes, origin>>

\* return results, and main's  print(f"Found {len(results)} mentions")
ReturnResults ==
    /\ pc = "for_keyword"
    /\ ki = Len(keywords)
    /\ stdout' = Append(stdout, "Found mentions")
    /\ pc' = "save"
    /\ UNCHANGED <<keywords, subreddit, limit, loopvars, results, file, failure,
                   writes, returned, origin>>

\* variant: a submission already recorded is skipped
ForSubmissionDedup ==
    /\ pc = "for_submission"
    /\ si < Len(submissions)
    /\ si' = si + 1
    /\ IF \E i \in 1..Len(results) : results[i].post_id = Submission(submissions[si + 1]).id
       THEN /\ pc' = "for_submission"
            /\ UNCHANGED <<results, origin>>
       ELSE /\ results' = Append(results, PostData(keywords[ki], Submission(submissions[si + 1])))
            /\ origin' = Append(origin, <<ki, si + 1>>)
            /\ pc' = "replace_more"
    /\ UNCHANGED <<keywords, subreddit, limit, ki, submissions, comments, ci, file,
                   stdout, failure, writes, returned>>

\* for submission in submissions: post_data is built and appended
ForSubmission ==
    /\ pc = "for_submission"
    /\ si < Len(submissions)
    /\ si' = si + 1
    /\ results' = Append(results, PostData(keywords[ki], Submission(submissions[si + 1])))
    /\ origin' = Append(origin, <<ki, si + 1>>)
    /\ pc' = "replace_more"
    /\ UNCHANGED <<keywords, subreddit, limit, ki, submissions, comments, ci, file,
                   stdout, failure, writes, returned>>

\* the submissions of this keyword are exhausted
EndSubmissions ==
    /\ pc = "for_submission"
    /\ si = Len(submissions)
    /\ pc' = "for_keyword"
    /\ UNCHANGED <<keywords, subreddit, limit, loopvars, results, file, stdout,
                   failure, writes, returned, origin>>

\* submission.comments.replace_more(limit=0) and submission.comments.list()
ExpandComments ==
    /\ pc = "replace_more"
    /\ comments' = ReplaceMore(Submission(submissions[si]).comments)
    /\ ci' = 0
    /\ pc' = "for_comment"
    /\ UNCHANGED <<keywords, subreddit, limit, ki, submissions, si, results, file,
                   stdout, failure, writes, returned, origin>>

\* variant: comment_data is inserted at the front of results
ForCommentInsertFirst ==
    /\ pc = "for_comment"
    /\ ci < Len(comments)
    /\ ci' = ci + 1
    /\ IF Matches(keywords[ki], comments[ci + 1])
       THEN /\ results' = <<CommentData(keywords[ki], Submission(submissions[si]),
                                        comments[ci + 1])>> \o results
            /\ origin' = <<<<ki, si>>>> \o origin
       ELSE UNCHANGED <<results, origin>>
    /\ UNCHANGED <<pc, keywords, subreddit, limit, ki, submissions, si, comments, file,
                   stdout, failure, writes, returned>>

\* for comment in ...: a matching comment gives comment_data
ForComment ==
    /\ pc = "for_comment"
    /\ ci < Len(comments)
    /\ ci' = ci + 1
    /\ IF Matches(keywords[ki], comments[ci + 1])
       THEN /\ results' = Append(results, CommentData(keywords[ki],
                                    Submission(submissions[si]), comments[ci + 1]))
            /\ origin' = Append(origin, <<ki, si>>)
       ELSE UNCHANGED <<results, origin>>
    /\ UNCHANGED <<pc, keywords, subreddit, limit, ki, submissions, si, comments, file,
                   stdout, failure, writes, returned>>

\* the comments of this submission are exhausted
EndComments ==
    /\ pc = "for_comment"
    /\ ci = Len(comments)
    /\ pc' = "for_submission"
    /\ UNCHANGED <<keywords, subreddit, limit, loopvars, results, file, stdout,
                   failure, writes, returned, origin>>

\* variant: main catches the exception and goes on to save_to_csv
RaiseCaught(kind) ==
    /\ failure' = kind
    /\ pc' = "save"
    /\ UNCHANGED <<keywords, subreddit, limit, loopvars, results, file, stdout,
                   writes, returned, origin>>

\* an exception leaves search_reddit and main: nothing catches it
Raise(kind) ==
    /\ failure' = kind
    /\ pc' = "raised"
    /\ UNCHANGED <<keywords, subreddit, limit, loopvars, results, file, stdout,
                   writes, returned, origin>>

\* the search request fails
SearchFails ==
    /\ pc = "for_keyword"
    /\ ki < Len(keywords)
    /\ Raise("search")

\* fetching the next submission or reading one of its fields fails
SubmissionFails ==
    /\ pc = "for_submission"
    /\ si < Len(submissions)
    /\ Raise("submission")

\* replace_more fails
ExpandFails ==
    /\ pc = "replace_more"
    /\ Raise("replace_more")

\* variant: the empty list is written like any other
SaveEmptyWrites ==
    /\ pc = "save"
    /\ results = <<>>
    /\ file' = WriteCsv(results)
    /\ writes' = writes + 1
    /\ stdout' = Append(stdout, "Results saved to")
    /\ pc' = "done"
    /\ UNCHANGED <<keywords, subreddit, limit, loopvars, results, failure,
                   returned, origin>>

\* save_to_csv with no results
SaveEmpty ==
    /\ pc = "save"
    /\ results = <<>>
    /\ stdout' = Append(stdout, "No results found.")
    /\ pc' = "done"
    /\ UNCHANGED <<keywords, subreddit, limit, loopvars, results, file, failure,
                   writes, returned, origin>>

\* save_to_csv with results
SaveWrite ==
    /\ pc = "save"
    /\ results # <<>>
    /\ file' = WriteCsv(results)
    /\ writes' = writes + 1
    /\ stdout' = Append(stdout, "Results saved to")
    /\ pc' = "done"
    /\ UNCHANGED <<keywords, subreddit, limit, loopvars, results, failure,
                   returned, origin>>

Next ==
    \/ Main
    \/ ForKeyword
    \/ ReturnResults
    \/ ForSubmission
    \/ EndSubmissions
    \/ ExpandComments
    \/ ForComment
    \/ EndComments
    \/ SearchFails
    \/ SubmissionFails
    \/ ExpandFails
    \/ SaveEmpty
    \/ SaveWrite

Spec == Init /\ [][Next]_vars

(* ---------------------------------------------------------------------- *)
(* save_to_csv on its own: any list of dictionaries, any destination       *)
(* ---------------------------------------------------------------------- *)

CsvKeys == {"author", "content", "content_type", "score"}

\* dictionaries with any of the keys
CsvRecords == UNION {[K -> {<<"x">>}] : K \in SUBSET CsvKeys}

InitCsv ==
    /\ pc = "save"
    /\ keywords = <<>>
    /\ subreddit = None
    /\ limit = 0
    /\ ki = 0
    /\ submissions = <<>>
    /\ si = 0
    /\ comments = <<>>
    /\ ci = 0
    /\ results \in UNION {[1..n -> CsvRecords] : n \in 0..MaxRows}
    /\ file \in {NoFile, OldFile}
    /\ stdout = <<>>
    /\ failure = "none"
    /\ writes = 0
    /\ returned = <<>>
    /\ origin = <<>>

NextCsv ==
    \/ SaveEmpty
    \/ SaveWrite

SpecCsv == InitCsv /\ [][NextCsv]_vars

(* ---------------------------------------------------------------------- *)
(* Properties                                                              *)
(* ---------------------------------------------------------------------- *)

Indices == 1..Len(results)
IsPost(i) == results[i].content_type = "submission"
IsComment(i) == results[i].content_type = "comment"
Returned == pc \in {"save", "done"}

\* the submission a record came from
Source(i) == Submission(returned[origin[i][1]][origin[i][2]])

RECURSIVE Sum(_)
Sum(q) == IF q = <<>> THEN 0 ELSE Head(q) + Sum(Tail(q))

\* C1: once search_reddit has returned, the number of records with
\* content_type 'submission' is at most limit times the number of keywords.
C1_PostsAtMostLimitPerKeyword ==
    Returned => Cardinality({i \in Indices : IsPost(i)}) <= limit * Len(keywords)

C1_Witness ==
    /\ Returned
    /\ Len(keywords) = 2
    /\ limit = 2
    /\ Cardinality({i \in Indices : IsPost(i)}) = 4

\* C2: the lower-cased content of every comment record contains the
\* lower-cased keyword of that record, and a comment whose body does not
\* contain the keyword case-insensitively adds no record.
C2_CommentsContainKeyword ==
    /\ [](\A i \in Indices :
            IsComment(i) => Contains(Lower(results[i].keyword), Lower(results[i].content)))
    /\ [][(/\ pc = "for_comment"
           /\ ci' = ci + 1
           /\ ~Contains(Lower(keywords[ki]), Lower(comments[ci + 1].body)))
          => results' = results]_vars

C2_Witness ==
    \E i \in Indices :
        /\ IsComment(i)
        /\ results[i].keyword = <<"A">>
        /\ results[i].content = <<"a">>
        /\ ci = 1
        /\ pc = "for_comment"

\* C3: in the returned list the records of one keyword entry are one
\* contiguous block, the blocks are in the order of the keyword list, and
\* in a block every post record is directly followed by the comment records
\* of that post.
C3_Ordering ==
    Returned =>
        /\ Len(origin) = Len(results)
        /\ \A i \in Indices :
              /\ results[i].keyword = keywords[origin[i][1]]
              /\ results[i].title = Source(i).title
        /\ \A i, j \in Indices : i < j => origin[i][1] <= origin[j][1]
        /\ \A i \in Indices : IsComment(i) => i > 1 /\ origin[i - 1] = origin[i]
        /\ \A i, j \in Indices :
              (i < j /\ IsPost(i) /\ IsPost(j) /\ origin[i][1] = origin[j][1])
                  => origin[i][2] < origin[j][2]

C3_Witness ==
    /\ pc = "done"
    /\ \E i \in Indices :
          /\ i + 3 \in Indices
          /\ IsPost(i) /\ IsComment(i + 1) /\ IsPost(i + 2) /\ IsPost(i + 3)
          /\ origin[i][1] = 1 /\ origin[i + 2][1] = 1 /\ origin[i + 3][1] = 2

\* C4: the post record of a submission without an author has the author
\* '[deleted]'.
C4_DeletedPostAuthor ==
    \A i \in Indices :
        (IsPost(i) /\ Source(i).author = None) => results[i].author = DeletedStr

\* C5: a failure of any step leaves search_reddit, nothing runs after it,
\* save_to_csv is not called and the file is not touched; the file is
\* written at most once, after every keyword has been processed.
C5_FailureAborts ==
    /\ [](failure # "none" => pc = "raised" /\ writes = 0)
    /\ [](writes <= 1)
    /\ [](writes = 1 => pc = "done" /\ ki = Len(keywords) /\ failure = "none")
    /\ [][failure = "none"]_vars
    /\ [][file' # file => pc = "save" /\ failure = "none" /\ writes' = writes + 1]_vars

C5_Witness ==
    /\ failure # "none"
    /\ results # <<>>
    /\ ki < Len(keywords)
    /\ file = OldFile
    /\ writes = 0

\* C6: save_to_csv with an empty list reports that nothing was found and
\* leaves the destination as it was; with a non-empty list it writes the
\* file and reports the destination.
C6_EmptyWritesNothing ==
    /\ [][(pc = "save" /\ results = <<>>)
          => /\ file' = file
             /\ writes' = writes
             /\ stdout' = Append(stdout, "No results found.")]_vars
    /\ [][(pc = "save" /\ results # <<>>)
          => /\ file'.exists
             /\ Len(file'.rows) = Len(results)
             /\ writes' = writes + 1
             /\ stdout' = Append(stdout, "Results saved to")]_vars

C6_Witness ==
    /\ pc = "done"
    /\ results = <<>>
    /\ file = OldFile
    /\ stdout = <<"No results found.">>

RowOrders(n) == {f \in [1..n -> 1..n] : \A i, j \in 1..n : i # j => f[i] # f[j]}

\* C7: the header written for a non-empty list is the union of the keys of
\* all the records, sorted without repeats, and is the same for every
\* permutation of the records.
C7_HeaderIsSortedUnion ==
    (pc = "done" /\ results # <<>>) =>
        LET h == file.header IN
        /\ {h[i] : i \in 1..Len(h)} = UNION {DOMAIN results[i] : i \in Indices}
        /\ \A i, j \in 1..Len(h) : i < j => StrLess(FieldChars(h[i]), FieldChars(h[j]))
        /\ \A f \in RowOrders(Len(results)) :
              WriteCsv([i \in Indices |-> results[f[i]]]).header = h

C7_Witness ==
    /\ pc = "done"
    /\ Len(results) = 2
    /\ DOMAIN results[1] = {"score"}
    /\ DOMAIN results[2] = {"content_type", "content", "author"}
    /\ file.header = <<"author", "content", "content_type", "score">>

\* C8: the content of a post record is the body when the
\* submission is a text post, and '[External link]' only when it is not.
C8_ContentOfTextPost ==
    \A i \in Indices :
        IsPost(i) =>
            /\ Source(i).is_self => results[i].content = Source(i).selftext
            /\ results[i].content = ExternalLinkStr => ~Source(i).is_self

\* the entries of the keyword list that are w and whose search yielded p
EntriesYielding(w, p) ==
    {k \in 1..Len(returned) :
        keywords[k] = w /\ \E s \in 1..Len(returned[k]) : returned[k][s] = p}

\* C9: nothing is deduplicated: a submission yielded by the searches of k
\* entries has k post records, one per entry, each of its comments has one
\* comment record per such entry whose keyword it contains, and records
\* once appended stay.
C9_NoDeduplication ==
    /\ [](Returned =>
            \A p \in SubmissionIds :
              \A w \in {keywords[k] : k \in 1..Len(keywords)} :
                /\ Cardinality({i \in Indices :
                        IsPost(i) /\ results[i].post_id = Submission(p).id
                                  /\ results[i].keyword = w})
                      = Cardinality(EntriesYielding(w, p))
                /\ LET cs == ReplaceMore(Submission(p).comments) IN
                   \A c \in 1..Len(cs) :
                      Cardinality({i \in Indices :
                          IsComment(i) /\ results[i].post_id = cs[c].id
                                       /\ results[i].keyword = w})
                        = IF Contains(Lower(w), Lower(cs[c].body))
                          THEN Cardinality(EntriesYielding(w, p))
                          ELSE 0)
    /\ [][/\ Len(results') >= Len(results)
          /\ SubSeq(results', 1, Len(results)) = results]_vars

C9_Witness ==
    /\ pc = "done"
    /\ Len(keywords) = 2
    /\ keywords[1] = keywords[2]
    /\ \E i, j, k, l \in Indices :
          /\ i < j /\ j < k /\ k < l
          /\ IsPost(i) /\ IsComment(j) /\ IsPost(k) /\ IsComment(l)
          /\ results[i] = results[k]
          /\ results[j] = results[l]

\* C10: an empty entry of the keyword list is searched like any other, and
\* every listed comment of every submission its search yields gives a
\* comment record.
C10_EmptyKeywordMatchesAll ==
    Returned =>
        /\ Len(returned) = Len(keywords)
        /\ \A k \in 1..Len(keywords) :
              keywords[k] = <<>> =>
                 Cardinality({i \in Indices : IsComment(i) /\ origin[i][1] = k})
                    = Sum([s \in 1..Len(returned[k]) |->
                              Len(ReplaceMore(Submission(returned[k][s]).comments))])

C10_Witness ==
    /\ pc = "done"
    /\ Len(keywords) = 2
    /\ keywords[1] = <<"A">>
    /\ keywords[2] = <<>>
    /\ Cardinality({i \in Indices : IsComment(i) /\ origin[i][1] = 2}) = 3

====
